---- MODULE Spec2Model ----
(***************************************************************************)
(* Model of the Databento native C-ABI layer: the validated handle         *)
(* registry and the live session lifecycle with its callback bridge        *)
(* (live_client_wrapper.cpp), plus the historical client's create/destroy  *)
(* pair (historical_client_wrapper.cpp).                                   *)
(*                                                                         *)
(* Threads: the foreign callers of the API (Callers) and, per live         *)
(* session, the run-loop thread owned by the underlying connection, which  *)
(* executes LiveClientWrapper::OnRecord once per inbound record.           *)
(*                                                                         *)
(* Two specifications share the actions.  Spec follows one live session    *)
(* driven by one caller thread next to its run-loop thread (the scheduling *)
(* model of the session layer).  RegistrySpec follows the process-wide     *)
(* handle registry: MaxObj objects of two types, created, queried and      *)
(* destroyed by two concurrent callers.                                    *)
(***************************************************************************)
EXTENDS Integers, Sequences, FiniteSets, TLC

\* ---------------------------------------------------------------- bounds
MaxObj == 2          \* objects (wrappers) that may be allocated in one run
MaxRecords == 3      \* records a connection produces in one run
MaxCap == 18         \* largest small capacity a caller declares for a buffer
MaxFile == 5         \* records in a DBN file

Callers == {"c1", "c2"}
Host == {"c1"}       \* the one caller-owned thread of a live session

\* ------------------------------------------------------------- constants
NULL == 0
MIN_ERROR_BUFFER_SIZE == 16
MAX_ERROR_BUFFER_SIZE == 65536
Ptrs == 1..MaxObj
Handles == 1..MaxObj
ForeignHandles == 0..(MaxObj + 1)     \* what a foreign caller may pass in

HandleType == {"LiveClient", "HistoricalClient", "Metadata", "DbnFileReader",
               "DbnFileWriter", "SymbologyResolution", "UnitPrices",
               "TsSymbolMap", "PitSymbolMap"}

NullStr == "<null>"                   \* a NULL const char*
CStrings == {NullStr, "", "X"}        \* dataset arguments
SchemaStrings == {NullStr, "", "trades", "bogus"}
SymbolArrays == {"ok", "null_array", "null_element"}
Callbacks == {NULL, 1}                \* function pointers
UserData == {1}                       \* user context pointers

VARIABLES
    registry,   \* handle registry: handle value -> [tag, ptr, state]
    heap,       \* allocation state of every pointer
    handleOf,   \* the handle value returned to the foreign caller for a pointer
    life,       \* per handle value: the tag it was issued with, and whether the
                \* API has since passed it to DestroyValidatedHandle
    w,          \* LiveClientWrapper fields, by pointer
    eng,        \* underlying connection: run loop active, records produced
    d,          \* run-loop thread inside OnRecord: pc, current record
    call,       \* per caller: position inside a multi-step API call
    hist,       \* per session: what the foreign callbacks have observed
    last,       \* the latest API call and what it returned
    fault,      \* undefined behaviour seen so far: use after free, double free
    arg,        \* arguments of a call that writes into a caller-supplied buffer
    res,        \* what that call wrote into the buffer, and what it returned
    file        \* a DBN file behind a reader handle: records consumed so far
                \* and records handed to the caller

vars == <<registry, heap, handleOf, life, w, eng, d, call, hist, last, fault,
          arg, res, file>>

\* what the session and registry operations leave alone
bufvars == <<arg, res, file>>

\* what the buffer-output operations leave alone
sessvars == <<registry, heap, handleOf, life, w, eng, d, call, hist, last, fault>>

\* ------------------------------------------------------ handle registry
NoEntry == [tag |-> "none", ptr |-> NULL, state |-> "never"]

\* the value a new handle gets: one that was never issued before
FreshHandles(reg) == {h \in Handles : reg[h].state = "never"}

FreshHandle_Reused(reg) == 1

FreshHandle(reg) == CHOOSE h \in FreshHandles(reg) : \A g \in FreshHandles(reg) : h <= g

CreateValidatedHandle(reg, h, tag, p) ==
    [reg EXCEPT ![h] = [tag |-> tag, ptr |-> p, state |-> "live"]]

ValidateAndCast(reg, h, tag) ==
    IF h \notin Handles \/ reg[h].state # "live"
    THEN [err |-> "InvalidHandle", ptr |-> NULL]
    ELSE IF reg[h].tag # tag
    THEN [err |-> "TypeMismatch", ptr |-> NULL]
    ELSE [err |-> "None", ptr |-> reg[h].ptr]

DestroyValidatedHandle(reg, h) ==
    IF h \in Handles /\ reg[h].state = "live"
    THEN [reg EXCEPT ![h].state = "destroyed"]
    ELSE reg

\* ------------------------------------------------------------------ heap
FreePtrs == {p \in Ptrs : heap[p] = "unalloc"}
NewPtr == CHOOSE p \in FreePtrs : \A q \in FreePtrs : p <= q

\* struct LiveClientWrapper, as its constructors leave it
NewWrapper(ds) ==
    [client |-> FALSE, record_callback |-> NULL, metadata_callback |-> NULL,
     error_callback |-> NULL, user_data |-> NULL, is_running |-> FALSE, callback_mutex |-> "free",
     client_init_flag |-> FALSE, dataset |-> ds]

NewHist ==
    [delivered |-> <<>>, passed |-> <<>>, stopped |-> FALSE, cbAfterStop |-> 0,
     errors |-> <<>>]

\* an API call that has returned: its name, its handle argument, the exit it
\* took and the value it returned (a create call returns the new handle)
Ret(op, h, outcome, val) ==
    [op |-> op, h |-> h, outcome |-> outcome, val |-> val]

\* the type of the object behind pointer p
TypeOf(p) == IF handleOf[p] = NULL THEN "none" ELSE life[handleOf[p]].tag

\* an API function dereferences p as an object of type tag: a use after free
\* when p has been deleted, a type confusion when p is of another type
Deref(p, tag) ==
    fault' = [fault EXCEPT !.uaf = @ \/ heap[p] # "live",
                           !.confused = @ \/ TypeOf(p) # tag]

\* the run-loop thread or a destroy step dereferences the wrapper p
Touch(p) == fault' = [fault EXCEPT !.uaf = @ \/ heap[p] # "live"]

Idle(t) == call[t].pc = "idle"
IdleCall == [pc |-> "idle", h |-> NULL, p |-> NULL, inflight |-> 0]

\* ------------------------------------------------------------- the record
\* Record::Size() and Record::RType() of the n-th record of a connection
RecordSize(n) == 16 * n
RecordRType(n) == 10 + n

IdleLoop == [pc |-> "idle", rec |-> 0]

\* no call with an output buffer is under way
NoCall == [fn |-> "none"]

\* a DBN file just opened: its reader is before the first record
NewFile == [pos |-> 0, got |-> <<>>, eof |-> FALSE]

SessionInit ==
    /\ registry = [h \in Handles |-> NoEntry]
    /\ heap = [p \in Ptrs |-> "unalloc"]
    /\ handleOf = [p \in Ptrs |-> NULL]
    /\ life = [h \in Handles |-> [tag |-> "none", state |-> "never"]]
    /\ w = [p \in Ptrs |-> NewWrapper("")]
    /\ eng = [p \in Ptrs |-> [loop |-> FALSE, produced |-> 0, built |-> 0, meta |-> FALSE, escaped |-> FALSE]]
    /\ d = [p \in Ptrs |-> IdleLoop]
    /\ call = [t \in Callers |-> IdleCall]
    /\ hist = [p \in Ptrs |-> NewHist]
    /\ last = Ret("none", NULL, "none", 0)
    /\ fault = [uaf |-> FALSE, doubleFree |-> FALSE, confused |-> FALSE]

Init ==
    /\ SessionInit
    /\ arg = NoCall
    /\ res = NoCall
    /\ file = NewFile

\* ----------------------------------------------------------------- create
\* ------------------------------------------------- the boundary's handlers
\* what the underlying engine may raise: an exception derived from
\* std::exception, or one that is not
ExceptionKinds == {"std", "other"}

\* create_ex, subscribe, start, reconnect and resubscribe have a single
\* handler, catch (const std::exception&): an engine exception of another
\* kind leaves the function without a return value
AtBoundary(outcome, kind) ==
    IF outcome = "engine_failure" /\ kind = "other" THEN "escaped" ELSE outcome

\* the value the caller receives: none when the exception escaped
Returned(outcome, status) == IF outcome = "escaped" THEN NULL ELSE status

\* LiveClientWrapper::EnsureClientCreated: std::call_once around the build;
\* a build that throws leaves the once-flag unset
EnsureClientCreated(wr, buildOk) ==
    IF wr.client_init_flag \/ ~buildOk THEN wr
    ELSE [wr EXCEPT !.client = TRUE, !.client_init_flag = TRUE]

EnsureClientThrows(wr, buildOk) == ~wr.client_init_flag /\ ~buildOk

dbento_live_create(t, api_key) ==
    /\ Idle(t)
    /\ IF api_key = NullStr
       THEN /\ last' = Ret("create", NULL, "invalid_param", NULL)
            /\ UNCHANGED <<registry, heap, handleOf, life, w, eng, d, call, hist, fault>>
       ELSE /\ FreePtrs # {} /\ FreshHandles(registry) # {}
            /\ LET p == NewPtr
                   h == FreshHandle(registry)
               IN /\ heap' = [heap EXCEPT ![p] = "live"]
                  /\ w' = [w EXCEPT ![p] = NewWrapper("")]
                  /\ registry' = CreateValidatedHandle(registry, h, "LiveClient", p)
                  /\ handleOf' = [handleOf EXCEPT ![p] = h]
                  /\ life' = [life EXCEPT ![h] = [tag |-> "LiveClient", state |-> "issued"]]
                  /\ last' = Ret("create", NULL, "success", h)
            /\ UNCHANGED <<eng, d, call, hist, fault>>
    /\ UNCHANGED bufvars

dbento_live_create_ex(t, api_key, dataset, buildOk) ==
    /\ Idle(t)
    /\ IF api_key = NullStr
       THEN /\ last' = Ret("create_ex", NULL, "invalid_param", NULL)
            /\ UNCHANGED <<registry, heap, handleOf, life, w, eng, d, call, hist, fault>>
       ELSE /\ FreePtrs # {} /\ FreshHandles(registry) # {}
            /\ LET p == NewPtr
                   h == FreshHandle(registry)
                   ds == IF dataset = NullStr THEN "" ELSE dataset
                   w0 == NewWrapper(ds)
               IN /\ heap' = [heap EXCEPT ![p] = "live"]
                  /\ IF ds # "" /\ EnsureClientThrows(w0, buildOk)
                     THEN \* the build threw: null handle, the wrapper is never registered
                          /\ w' = [w EXCEPT ![p] = w0]
                          /\ \E kind \in ExceptionKinds :
                                last' = Ret("create_ex", NULL,
                                            AtBoundary("engine_failure", kind), NULL)
                          /\ UNCHANGED <<registry, handleOf, life, eng>>
                     ELSE /\ w' = [w EXCEPT ![p] =
                                     IF ds # "" THEN EnsureClientCreated(w0, buildOk) ELSE w0]
                          /\ registry' = CreateValidatedHandle(registry, h, "LiveClient", p)
                          /\ handleOf' = [handleOf EXCEPT ![p] = h]
                          /\ life' = [life EXCEPT ![h] = [tag |-> "LiveClient", state |-> "issued"]]
                          /\ eng' = [eng EXCEPT ![p].built =
                                         IF ds # "" THEN @ + 1 ELSE @]
                          /\ last' = Ret("create_ex", NULL, "success", h)
            /\ UNCHANGED <<d, call, hist, fault>>
    /\ UNCHANGED bufvars

dbento_historical_create(t, api_key) ==
    /\ Idle(t)
    /\ IF api_key = NullStr
       THEN /\ last' = Ret("hist_create", NULL, "invalid_param", NULL)
            /\ UNCHANGED <<registry, heap, handleOf, life, w, eng, d, call, hist, fault>>
       ELSE /\ FreePtrs # {} /\ FreshHandles(registry) # {}
            /\ LET p == NewPtr
                   h == FreshHandle(registry)
               IN /\ heap' = [heap EXCEPT ![p] = "live"]
                  /\ registry' = CreateValidatedHandle(registry, h, "HistoricalClient", p)
                  /\ handleOf' = [handleOf EXCEPT ![p] = h]
                  /\ life' = [life EXCEPT ![h] = [tag |-> "HistoricalClient", state |-> "issued"]]
                  /\ last' = Ret("hist_create", NULL, "success", h)
            /\ UNCHANGED <<w, eng, d, call, hist, fault>>
    /\ UNCHANGED bufvars

\* ------------------------------------------------------------ validation
\* common_helpers.hpp: each throws std::invalid_argument when it fails
ValidateNonEmptyString(value) == value # NullStr /\ value # ""

ValidateSymbolArray(symbols) == symbols = "ok"

\* ParseSchema throws std::runtime_error on a string it does not know
ParseSchemaKnown(schema) == schema = "trades"

\* ---------------------------------------------------- returned statuses
\* what each API function returns on each of its exits
SubscribeStatus(outcome) ==
    IF outcome = "success" THEN 0 ELSE -1

StartStatus(outcome) ==
    CASE outcome = "success" -> 0
      [] outcome = "invalid_param" -> -2
      [] OTHER -> -1

ReconnectStatus(outcome) ==
    CASE outcome = "success" -> 0
      [] outcome = "not_initialized" -> -2
      [] OTHER -> -1

ResubscribeStatus(outcome) ==
    CASE outcome = "success" -> 0
      [] outcome = "not_initialized" -> -2
      [] OTHER -> -1

\* ------------------------------------------------------------- subscribe
SubscribeOutcome(wr, dataset, schema, symbols, buildOk, subOk) ==
    IF ~(ValidateNonEmptyString(dataset) /\ ValidateNonEmptyString(schema)
         /\ ValidateSymbolArray(symbols))
    THEN "invalid_param"
    ELSE IF ~ParseSchemaKnown(schema) THEN "invalid_param"
    ELSE IF EnsureClientThrows(wr, buildOk) THEN "engine_failure"
    ELSE IF ~subOk THEN "engine_failure"
    ELSE "success"

\* the wrapper as a subscribe call leaves it
SubscribeEffect(wr, dataset, schema, symbols, buildOk) ==
    IF ~(ValidateNonEmptyString(dataset) /\ ValidateNonEmptyString(schema)
         /\ ValidateSymbolArray(symbols))
    THEN wr
    ELSE LET w1 == [wr EXCEPT !.dataset = dataset]
         IN IF ~ParseSchemaKnown(schema) THEN w1
            ELSE EnsureClientCreated(w1, buildOk)

dbento_live_subscribe(t, h, dataset, schema, symbols, buildOk, subOk) ==
    /\ Idle(t)
    /\ LET v == ValidateAndCast(registry, h, "LiveClient")
       IN IF v.err # "None"
          THEN /\ last' = Ret("subscribe", h, "invalid_handle", SubscribeStatus("invalid_handle"))
               /\ UNCHANGED <<w, eng, fault>>
          ELSE LET p == v.ptr
                   outcome == SubscribeOutcome(w[p], dataset, schema, symbols, buildOk, subOk)
               IN /\ w' = [w EXCEPT ![p] = SubscribeEffect(w[p], dataset, schema, symbols, buildOk)]
                  /\ eng' = [eng EXCEPT ![p].built =
                                 IF w'[p].client /\ ~w[p].client THEN @ + 1 ELSE @]
                  /\ \E kind \in ExceptionKinds :
                        LET out == AtBoundary(outcome, kind)
                        IN last' = Ret("subscribe", h, out, Returned(out, SubscribeStatus(out)))
                  /\ Deref(p, "LiveClient")
    /\ UNCHANGED <<registry, heap, handleOf, life, d, call, hist>>
    /\ UNCHANGED bufvars

\* ----------------------------------------------------------------- start
StartOutcome(wr, on_record, startOk) ==
    IF ~wr.client THEN "not_initialized"
    ELSE IF on_record = NULL THEN "invalid_param"
    ELSE IF ~startOk THEN "engine_failure"
    ELSE "success"

\* lines 247-250: the stores that precede client->Start
StartStores(wr, on_record, on_error, user_data) ==
    [wr EXCEPT !.record_callback = on_record, !.error_callback = on_error,
               !.user_data = user_data, !.is_running = TRUE]

dbento_live_start(t, h, on_record, on_error, user_data, startOk) ==
    /\ Idle(t)
    /\ LET v == ValidateAndCast(registry, h, "LiveClient")
       IN IF v.err # "None"
          THEN /\ last' = Ret("start", h, "invalid_handle", StartStatus("invalid_handle"))
               /\ UNCHANGED <<w, eng, hist, fault>>
          ELSE LET p == v.ptr
                   outcome == StartOutcome(w[p], on_record, startOk)
               IN /\ \E kind \in ExceptionKinds :
                        LET out == AtBoundary(outcome, kind)
                        IN last' = Ret("start", h, out, Returned(out, StartStatus(out)))
                  /\ Deref(p, "LiveClient")
                  /\ IF outcome \in {"not_initialized", "invalid_param"}
                     THEN UNCHANGED <<w, eng, hist>>
                     ELSE /\ w' = [w EXCEPT ![p] = StartStores(w[p], on_record, on_error, user_data)]
                          /\ hist' = [hist EXCEPT ![p].stopped = FALSE, ![p].cbAfterStop = 0,
                                                   ![p].errors = <<>>]
                          /\ eng' = [eng EXCEPT ![p].loop = @ \/ (outcome = "success")]
    /\ UNCHANGED <<registry, heap, handleOf, life, d, call>>
    /\ UNCHANGED bufvars

\* -------------------------------------------------------------- start_ex
\* lines 448-452: the stores that precede client->Start
StartExStores(wr, on_metadata, on_record, on_error, user_data) ==
    [wr EXCEPT !.record_callback = on_record, !.metadata_callback = on_metadata,
               !.error_callback = on_error, !.user_data = user_data,
               !.is_running = TRUE]

\* with a metadata callback the run loop calls the metadata closure once
\* before its first record (lines 455-482)
dbento_live_start_ex(t, h, on_metadata, on_record, on_error, user_data, startOk) ==
    /\ Idle(t)
    /\ LET v == ValidateAndCast(registry, h, "LiveClient")
       IN IF v.err # "None"
          THEN /\ last' = Ret("start_ex", h, "invalid_handle", StartStatus("invalid_handle"))
               /\ UNCHANGED <<w, eng, hist, fault>>
          ELSE LET p == v.ptr
                   outcome == StartOutcome(w[p], on_record, startOk)
               IN /\ \E kind \in ExceptionKinds :
                        LET out == AtBoundary(outcome, kind)
                        IN last' = Ret("start_ex", h, out, Returned(out, StartStatus(out)))
                  /\ Deref(p, "LiveClient")
                  /\ IF outcome \in {"not_initialized", "invalid_param"}
                     THEN UNCHANGED <<w, eng, hist>>
                     ELSE /\ w' = [w EXCEPT ![p] = StartExStores(w[p], on_metadata, on_record,
                                                                on_error, user_data)]
                          /\ hist' = [hist EXCEPT ![p].stopped = FALSE, ![p].cbAfterStop = 0,
                                                   ![p].errors = <<>>]
                          /\ eng' = [eng EXCEPT
                                       ![p].loop = @ \/ (outcome = "success"),
                                       ![p].meta = @ \/ (outcome = "success" /\ on_metadata # NULL)]
    /\ UNCHANGED <<registry, heap, handleOf, life, d, call>>
    /\ UNCHANGED bufvars

\* ------------------------------------------------------------------ stop
StopStore_Missing(wr) == wr

StopStore(wr) == [wr EXCEPT !.is_running = FALSE]

dbento_live_stop(t, h) ==
    /\ Idle(t)
    /\ LET v == ValidateAndCast(registry, h, "LiveClient")
       IN IF v.err # "None"
          THEN /\ last' = Ret("stop", h, "invalid_handle", 0)
               /\ UNCHANGED <<w, hist, fault>>
          ELSE LET p == v.ptr
               IN /\ w' = [w EXCEPT ![p] = StopStore(w[p])]
                  /\ hist' = [hist EXCEPT ![p].stopped = TRUE, ![p].cbAfterStop = 0]
                  /\ last' = Ret("stop", h, "success", 0)
                  /\ Deref(p, "LiveClient")
    /\ UNCHANGED <<registry, heap, handleOf, life, eng, d, call>>
    /\ UNCHANGED bufvars

\* ------------------------------------------------ reconnect, resubscribe
\* a reconnect that drops the registered callbacks with the old connection
dbento_live_reconnect_DropsCallbacks(t, h, reconnectOk) ==
    /\ Idle(t)
    /\ LET v == ValidateAndCast(registry, h, "LiveClient")
       IN IF v.err # "None"
          THEN /\ last' = Ret("reconnect", h, "invalid_handle", ReconnectStatus("invalid_handle"))
               /\ UNCHANGED <<w, fault>>
          ELSE LET p == v.ptr
                   outcome == IF ~w[p].client THEN "not_initialized"
                              ELSE IF ~reconnectOk THEN "engine_failure"
                              ELSE "success"
               IN /\ w' = [w EXCEPT ![p].is_running =
                              IF outcome = "not_initialized" THEN @ ELSE FALSE,
                                     ![p].record_callback =
                              IF outcome = "not_initialized" THEN @ ELSE NULL]
                  /\ last' = Ret("reconnect", h, outcome, ReconnectStatus(outcome))
                  /\ Deref(p, "LiveClient")
    /\ UNCHANGED <<registry, heap, handleOf, life, eng, d, call, hist>>
    /\ UNCHANGED bufvars

dbento_live_reconnect(t, h, reconnectOk) ==
    /\ Idle(t)
    /\ LET v == ValidateAndCast(registry, h, "LiveClient")
       IN IF v.err # "None"
          THEN /\ last' = Ret("reconnect", h, "invalid_handle", ReconnectStatus("invalid_handle"))
               /\ UNCHANGED <<w, fault>>
          ELSE LET p == v.ptr
                   outcome == IF ~w[p].client THEN "not_initialized"
                              ELSE IF ~reconnectOk THEN "engine_failure"
                              ELSE "success"
               IN /\ w' = [w EXCEPT ![p].is_running =
                              IF outcome = "not_initialized" THEN @ ELSE FALSE]
                  /\ \E kind \in ExceptionKinds :
                        LET out == AtBoundary(outcome, kind)
                        IN last' = Ret("reconnect", h, out, Returned(out, ReconnectStatus(out)))
                  /\ Deref(p, "LiveClient")
    /\ UNCHANGED <<registry, heap, handleOf, life, eng, d, call, hist>>
    /\ UNCHANGED bufvars

dbento_live_resubscribe(t, h, resubscribeOk) ==
    /\ Idle(t)
    /\ LET v == ValidateAndCast(registry, h, "LiveClient")
       IN IF v.err # "None"
          THEN /\ last' = Ret("resubscribe", h, "invalid_handle", ResubscribeStatus("invalid_handle"))
               /\ UNCHANGED fault
          ELSE LET p == v.ptr
                   outcome == IF ~w[p].client THEN "not_initialized"
                              ELSE IF ~resubscribeOk THEN "engine_failure"
                              ELSE "success"
               IN /\ \E kind \in ExceptionKinds :
                        LET out == AtBoundary(outcome, kind)
                        IN last' = Ret("resubscribe", h, out, Returned(out, ResubscribeStatus(out)))
                  /\ Deref(p, "LiveClient")
    /\ UNCHANGED <<registry, heap, handleOf, life, w, eng, d, call, hist>>
    /\ UNCHANGED bufvars

\* ---------------------------------------------------- connection state
ConnectionState_NoClientCheck(valid, wr) ==
    IF ~valid THEN 0
    ELSE IF wr.is_running THEN 3
    ELSE 2

ConnectionState(valid, wr) ==
    IF ~valid THEN 0
    ELSE IF ~wr.client THEN 0
    ELSE IF wr.is_running THEN 3
    ELSE 2

dbento_live_get_connection_state(t, h) ==
    /\ Idle(t)
    /\ LET v == ValidateAndCast(registry, h, "LiveClient")
       IN IF v.err # "None"
          THEN /\ last' = Ret("get_connection_state", h, "invalid_handle", ConnectionState(FALSE, NewWrapper("")))
               /\ UNCHANGED fault
          ELSE /\ last' = Ret("get_connection_state", h, "success", ConnectionState(TRUE, w[v.ptr]))
               /\ Deref(v.ptr, "LiveClient")
    /\ UNCHANGED <<registry, heap, handleOf, life, w, eng, d, call, hist>>
    /\ UNCHANGED bufvars

\* -------------------------------------------------------------- metadata
dbento_metadata_get_symbol_mapping_RawCast(t, h) ==
    /\ Idle(t)
    /\ IF h \in Handles /\ registry[h].state = "live"
       THEN /\ last' = Ret("metadata_get_symbol_mapping", h, "not_found", -2)
            /\ Deref(registry[h].ptr, "Metadata")
       ELSE /\ last' = Ret("metadata_get_symbol_mapping", h, "invalid_handle", -1)
            /\ UNCHANGED fault
    /\ UNCHANGED <<registry, heap, handleOf, life, w, eng, d, call, hist>>
    /\ UNCHANGED bufvars

dbento_metadata_get_symbol_mapping(t, h) ==
    /\ Idle(t)
    /\ LET v == ValidateAndCast(registry, h, "Metadata")
       IN IF v.err # "None"
          THEN /\ last' = Ret("metadata_get_symbol_mapping", h, "invalid_handle", -1)
               /\ UNCHANGED fault
          ELSE /\ last' = Ret("metadata_get_symbol_mapping", h, "not_found", -2)
               /\ Deref(v.ptr, "Metadata")
    /\ UNCHANGED <<registry, heap, handleOf, life, w, eng, d, call, hist>>
    /\ UNCHANGED bufvars

\* --------------------------------------------------------------- destroy
\* positions of the run-loop thread at which it holds callback_mutex
Holding == {"check", "call", "incb"}

dbento_live_destroy_Unchecked(t, h) ==
    /\ Idle(t)
    /\ h \in Handles /\ registry[h].state # "never"
    /\ w' = [w EXCEPT ![registry[h].ptr].is_running = FALSE]
    /\ call' = [call EXCEPT ![t] =
                  [pc |-> "d_lock", h |-> h, p |-> registry[h].ptr, inflight |-> 0]]
    /\ Deref(registry[h].ptr, "LiveClient")
    /\ UNCHANGED <<registry, heap, handleOf, life, eng, d, hist, last>>
    /\ UNCHANGED bufvars

\* lines 284-292: validation, Phase 1 (store), Phase 2 (sleep)
dbento_live_destroy(t, h) ==
    /\ Idle(t)
    /\ LET v == ValidateAndCast(registry, h, "LiveClient")
       IN IF v.err # "None"
          THEN /\ last' = Ret("destroy", h, "invalid_handle", 0)
               /\ UNCHANGED <<w, call, fault>>
          ELSE LET p == v.ptr
               IN /\ w' = [w EXCEPT ![p].is_running = FALSE]
                  /\ call' = [call EXCEPT ![t] =
                                [pc |-> "d_lock", h |-> h, p |-> p,
                                 inflight |-> IF d[p].pc \in Holding THEN d[p].rec ELSE 0]]
                  /\ Deref(p, "LiveClient")
                  /\ UNCHANGED last
    /\ UNCHANGED <<registry, heap, handleOf, life, eng, d, hist>>
    /\ UNCHANGED bufvars

LiveDestroyLock_NoWait(t, raises) ==
    /\ call[t].pc = "d_lock"
    /\ ~raises
    /\ call' = [call EXCEPT ![t].pc = "d_delete"]
    /\ Touch(call[t].p)
    /\ UNCHANGED <<registry, heap, handleOf, life, w, eng, d, hist, last>>
    /\ UNCHANGED bufvars

\* lines 295-296, Phase 3: std::lock_guard on callback_mutex. mutex::lock
\* blocks while the run-loop thread holds the mutex, and may throw
\* std::system_error, which the catch (...) of line 308 swallows
LiveDestroyLock(t, raises) ==
    /\ call[t].pc = "d_lock"
    /\ IF raises
       THEN /\ call' = [call EXCEPT ![t] = IdleCall]
            /\ last' = Ret("destroy", call[t].h, "swallowed", 0)
            /\ UNCHANGED w
       ELSE /\ w[call[t].p].callback_mutex = "free"
            /\ w' = [w EXCEPT ![call[t].p].callback_mutex = t]
            /\ call' = [call EXCEPT ![t].pc = "d_unlock"]
            /\ UNCHANGED last
    /\ Touch(call[t].p)
    /\ UNCHANGED <<registry, heap, handleOf, life, eng, d, hist>>
    /\ UNCHANGED bufvars

\* line 299: the lock_guard goes out of scope
LiveDestroyUnlock(t) ==
    /\ call[t].pc = "d_unlock"
    /\ w' = [w EXCEPT ![call[t].p].callback_mutex = "free"]
    /\ call' = [call EXCEPT ![t].pc = "d_delete"]
    /\ Touch(call[t].p)
    /\ UNCHANGED <<registry, heap, handleOf, life, eng, d, hist, last>>
    /\ UNCHANGED bufvars

\* line 302, Phase 4: delete wrapper; the connection goes with it
LiveDestroyDelete(t) ==
    /\ call[t].pc = "d_delete"
    /\ heap' = [heap EXCEPT ![call[t].p] = "freed"]
    /\ eng' = [eng EXCEPT ![call[t].p].loop = FALSE]
    /\ fault' = [fault EXCEPT !.doubleFree = @ \/ heap[call[t].p] = "freed"]
    /\ call' = [call EXCEPT ![t].pc = "d_unreg"]
    /\ UNCHANGED <<registry, handleOf, life, w, d, hist, last>>
    /\ UNCHANGED bufvars

LiveDestroyUnregister_Skipped(t) ==
    /\ call[t].pc = "d_unreg"
    /\ call' = [call EXCEPT ![t] = IdleCall]
    /\ life' = [life EXCEPT ![call[t].h].state = "destroyed"]
    /\ last' = Ret("destroy", call[t].h, "done", 0)
    /\ UNCHANGED <<registry, heap, handleOf, w, eng, d, hist, fault>>
    /\ UNCHANGED bufvars

\* line 305: DestroyValidatedHandle(handle), then return
LiveDestroyUnregister(t) ==
    /\ call[t].pc = "d_unreg"
    /\ registry' = DestroyValidatedHandle(registry, call[t].h)
    /\ call' = [call EXCEPT ![t] = IdleCall]
    /\ life' = [life EXCEPT ![call[t].h].state = "destroyed"]
    /\ last' = Ret("destroy", call[t].h, "done", 0)
    /\ UNCHANGED <<heap, handleOf, w, eng, d, hist, fault>>
    /\ UNCHANGED bufvars

\* historical_client_wrapper.cpp lines 252-254: validation
dbento_historical_destroy(t, h) ==
    /\ Idle(t)
    /\ LET v == ValidateAndCast(registry, h, "HistoricalClient")
       IN IF v.err # "None"
          THEN /\ last' = Ret("hist_destroy", h, "invalid_handle", 0)
               /\ UNCHANGED call
          ELSE /\ call' = [call EXCEPT ![t] =
                             [pc |-> "hd_delete", h |-> h, p |-> v.ptr, inflight |-> 0]]
               /\ UNCHANGED last
    /\ UNCHANGED <<registry, heap, handleOf, life, w, eng, d, hist, fault>>
    /\ UNCHANGED bufvars

\* line 255: delete wrapper
HistDestroyDelete(t) ==
    /\ call[t].pc = "hd_delete"
    /\ heap' = [heap EXCEPT ![call[t].p] = "freed"]
    /\ fault' = [fault EXCEPT !.doubleFree = @ \/ heap[call[t].p] = "freed"]
    /\ call' = [call EXCEPT ![t].pc = "hd_unreg"]
    /\ UNCHANGED <<registry, handleOf, life, w, eng, d, hist, last>>
    /\ UNCHANGED bufvars

\* line 256: DestroyValidatedHandle(handle), then return
HistDestroyUnregister(t) ==
    /\ call[t].pc = "hd_unreg"
    /\ registry' = DestroyValidatedHandle(registry, call[t].h)
    /\ call' = [call EXCEPT ![t] = IdleCall]
    /\ life' = [life EXCEPT ![call[t].h].state = "destroyed"]
    /\ last' = Ret("hist_destroy", call[t].h, "done", 0)
    /\ UNCHANGED <<heap, handleOf, w, eng, d, hist, fault>>
    /\ UNCHANGED bufvars

\* ------------------------------------------------- the run-loop thread
\* the connection's run loop hands its next record to the bridge closure
\* installed by client->Start (lines 253-255), which calls OnRecord
RecordArrives(p) ==
    /\ eng[p].loop
    /\ ~eng[p].meta
    /\ d[p].pc = "idle"
    /\ eng[p].produced < MaxRecords
    /\ eng' = [eng EXCEPT ![p].produced = @ + 1]
    /\ d' = [d EXCEPT ![p] = [pc |-> "lock", rec |-> eng[p].produced + 1]]
    /\ UNCHANGED <<registry, heap, handleOf, life, w, call, hist, last, fault>>
    /\ UNCHANGED bufvars

\* line 83: std::lock_guard on callback_mutex
OnRecordLock(p) ==
    /\ d[p].pc = "lock"
    /\ w[p].callback_mutex = "free"
    /\ w' = [w EXCEPT ![p].callback_mutex = "delivery"]
    /\ d' = [d EXCEPT ![p].pc = "check"]
    /\ Touch(p)
    /\ UNCHANGED <<registry, heap, handleOf, life, eng, call, hist, last>>
    /\ UNCHANGED bufvars

\* line 86: is_running.load
RunningCheck(wr) == wr.is_running

OnRecordCheck_Continue(p) ==
    /\ d[p].pc = "check"
    /\ IF ~RunningCheck(w[p])
       THEN /\ w' = [w EXCEPT ![p].callback_mutex = "free"]
            /\ d' = [d EXCEPT ![p] = IdleLoop]
            /\ UNCHANGED <<hist, eng>>
       ELSE /\ hist' = [hist EXCEPT ![p].passed = Append(@, d[p].rec)]
            /\ d' = [d EXCEPT ![p].pc = "call"]
            /\ UNCHANGED <<w, eng>>
    /\ Touch(p)
    /\ UNCHANGED <<registry, heap, handleOf, life, call, last>>
    /\ UNCHANGED bufvars

\* lines 86-91: the flag check; on false, unlock and return Stop
OnRecordCheck(p) ==
    /\ d[p].pc = "check"
    /\ IF ~RunningCheck(w[p])
       THEN /\ w' = [w EXCEPT ![p].callback_mutex = "free"]
            /\ d' = [d EXCEPT ![p] = IdleLoop]
            /\ eng' = [eng EXCEPT ![p].loop = FALSE]
            /\ UNCHANGED hist
       ELSE /\ hist' = [hist EXCEPT ![p].passed = Append(@, d[p].rec)]
            /\ d' = [d EXCEPT ![p].pc = "call"]
            /\ UNCHANGED <<w, eng>>
    /\ Touch(p)
    /\ UNCHANGED <<registry, heap, handleOf, life, call, last>>
    /\ UNCHANGED bufvars

CallbackArgs_WrongLength(n, user_data) == <<n, RecordSize(1), RecordRType(n), user_data>>

\* lines 93-103: what the foreign record callback receives for record n
CallbackArgs(n, user_data) == <<n, RecordSize(n), RecordRType(n), user_data>>

\* line 103: the record callback is entered (line 91: when it is not null)
OnRecordCall(p) ==
    /\ d[p].pc = "call"
    /\ IF w[p].record_callback # NULL
       THEN hist' = [hist EXCEPT ![p].delivered = Append(@, CallbackArgs(d[p].rec, w[p].user_data)),
                                 ![p].cbAfterStop = IF hist[p].stopped THEN @ + 1 ELSE @,
                                 ![p].errors = <<>>]
       ELSE UNCHANGED hist
    /\ d' = [d EXCEPT ![p].pc = "incb"]
    /\ Touch(p)
    /\ UNCHANGED <<registry, heap, handleOf, life, w, eng, call, last>>
    /\ UNCHANGED bufvars

\* what the record callback does: it returns, it throws an exception derived
\* from std::exception, or it throws anything else
Raised == {"no", "std", "other"}

ErrorArgs_OneCode(raised, user_data) == <<-999, user_data>>

\* lines 108-110 and 117-119: what the error callback receives (the message
\* aside) from each of the two catch blocks
ErrorArgs(raised, user_data) ==
    <<IF raised = "std" THEN -999 ELSE -998, user_data>>

\* lines 104-125: the callback returns or raises; a catch block calls the
\* error callback when one is registered and clears the flag; then the final
\* load of the flag, the release of the lock and the value handed to the run
\* loop. hist.errors holds the error callback invocations of the delivery
\* that entered the record callback last
OnRecordReturn(p, raised) ==
    /\ d[p].pc = "incb"
    /\ raised # "no" => w[p].record_callback # NULL
    /\ LET running == IF raised # "no" THEN FALSE ELSE w[p].is_running
       IN /\ w' = [w EXCEPT ![p].callback_mutex = "free", ![p].is_running = running]
          /\ eng' = [eng EXCEPT ![p].loop = @ /\ running]
    /\ hist' = [hist EXCEPT ![p].errors =
                  IF raised # "no" /\ w[p].error_callback # NULL
                  THEN Append(@, ErrorArgs(raised, w[p].user_data))
                  ELSE @]
    /\ d' = [d EXCEPT ![p] = IdleLoop]
    /\ Touch(p)
    /\ UNCHANGED <<registry, heap, handleOf, life, call, last>>
    /\ UNCHANGED bufvars

\* the error callback itself raises inside a catch block of OnRecord (line
\* 109 or 118): no handler encloses the catch blocks, so the stores of lines
\* 112 and 121 are skipped, the lock_guard unwinds and the exception leaves
\* OnRecord into the connection's run loop, which ends
OnRecordErrorRaises(p, raised) ==
    /\ d[p].pc = "incb"
    /\ raised # "no"
    /\ w[p].record_callback # NULL /\ w[p].error_callback # NULL
    /\ w' = [w EXCEPT ![p].callback_mutex = "free"]
    /\ eng' = [eng EXCEPT ![p].loop = FALSE, ![p].escaped = TRUE]
    /\ hist' = [hist EXCEPT ![p].errors = Append(@, ErrorArgs(raised, w[p].user_data))]
    /\ d' = [d EXCEPT ![p] = IdleLoop]
    /\ Touch(p)
    /\ UNCHANGED <<registry, heap, handleOf, life, call, last>>
    /\ UNCHANGED bufvars

\* ------------------------------------------------- the metadata closure
\* the run loop has decoded the stream's metadata and calls the first
\* closure handed to client->Start (line 457)
MetadataArrives(p) ==
    /\ eng[p].loop
    /\ eng[p].meta
    /\ d[p].pc = "idle"
    /\ eng' = [eng EXCEPT ![p].meta = FALSE]
    /\ d' = [d EXCEPT ![p] = [pc |-> "meta", rec |-> 0]]
    /\ UNCHANGED <<registry, heap, handleOf, life, w, call, hist, last, fault>>
    /\ UNCHANGED bufvars

\* lines 459-463: the closure reads metadata_callback and enters it; it does
\* not take callback_mutex and does not read is_running
MetadataCall(p) ==
    /\ d[p].pc = "meta"
    /\ d' = [d EXCEPT ![p].pc = IF w[p].metadata_callback # NULL THEN "inmeta" ELSE "idle"]
    /\ Touch(p)
    /\ UNCHANGED <<registry, heap, handleOf, life, w, eng, call, hist, last>>
    /\ UNCHANGED bufvars

\* lines 467 and 473: what the error callback receives from the closure
MetadataErrorArgs(raised, user_data) ==
    <<IF raised = "std" THEN -997 ELSE -996, user_data>>

\* lines 465-477: the metadata callback returns or raises; a catch block
\* calls the error callback when one is registered; when that raises too the
\* exception leaves the closure and the run loop ends
MetadataReturn(p, raised, errorRaises) ==
    /\ d[p].pc = "inmeta"
    /\ errorRaises => raised # "no" /\ w[p].error_callback # NULL
    /\ hist' = [hist EXCEPT ![p].errors =
                  IF raised # "no" /\ w[p].error_callback # NULL
                  THEN Append(@, MetadataErrorArgs(raised, w[p].user_data))
                  ELSE @]
    /\ eng' = [eng EXCEPT ![p].loop = @ /\ ~errorRaises,
                          ![p].escaped = @ \/ errorRaises]
    /\ d' = [d EXCEPT ![p] = IdleLoop]
    /\ Touch(p)
    /\ UNCHANGED <<registry, heap, handleOf, life, w, call, last>>
    /\ UNCHANGED bufvars

\* a run-loop thread inside OnRecord on a deleted wrapper may also fault
DeliveryCrash(p) ==
    /\ d[p].pc # "idle"
    /\ heap[p] = "freed"
    /\ d' = [d EXCEPT ![p] = IdleLoop]
    /\ fault' = [fault EXCEPT !.uaf = TRUE]
    /\ UNCHANGED <<registry, heap, handleOf, life, w, eng, call, hist, last>>
    /\ UNCHANGED bufvars

\* ------------------------------------------------------------------ next
ApiKeys == {NullStr, "key"}

\* (dataset, schema, symbols) of a subscribe call: a good triple, and each
\* argument in turn replaced by its other values
SubscribeArgs ==
    {<<ds, "trades", "ok">> : ds \in CStrings}
    \cup {<<"X", sc, "ok">> : sc \in SchemaStrings}
    \cup {<<"X", "trades", sy>> : sy \in SymbolArrays}

\* Spec follows one session: the create calls come before any allocation
NoObjectYet == \A p \in Ptrs : heap[p] = "unalloc"

\* the handle values the host of the session passes in: the null handle, a
\* value out of the registry's range, and every value issued so far
SessionHandles ==
    {h \in ForeignHandles : h \notin Handles \/ registry[h].state # "never"}

Next ==
    \/ \E t \in Host, k \in ApiKeys : NoObjectYet /\ dbento_live_create(t, k)
    \/ \E t \in Host, k \in ApiKeys, ds \in {NullStr, "X"}, ok \in BOOLEAN :
          NoObjectYet /\ dbento_live_create_ex(t, k, ds, ok)
    \/ \E t \in Host, h \in SessionHandles, a \in SubscribeArgs, bok \in BOOLEAN,
          sok \in BOOLEAN :
          dbento_live_subscribe(t, h, a[1], a[2], a[3], bok, sok)
    \/ \E t \in Host, h \in SessionHandles, rc \in Callbacks, ec \in Callbacks,
          ud \in UserData, ok \in BOOLEAN :
          dbento_live_start(t, h, rc, ec, ud, ok)
    \/ \E t \in Host, h \in SessionHandles : dbento_live_stop(t, h)
    \/ \E t \in Host, h \in SessionHandles, ok \in BOOLEAN : dbento_live_reconnect(t, h, ok)
    \/ \E t \in Host, h \in SessionHandles, ok \in BOOLEAN : dbento_live_resubscribe(t, h, ok)
    \/ \E t \in Host, h \in SessionHandles : dbento_live_get_connection_state(t, h)
    \/ \E t \in Host, h \in SessionHandles : dbento_live_destroy(t, h)
    \/ \E t \in Host, raises \in BOOLEAN : LiveDestroyLock(t, raises)
    \/ \E t \in Host : LiveDestroyUnlock(t)
    \/ \E t \in Host : LiveDestroyDelete(t)
    \/ \E t \in Host : LiveDestroyUnregister(t)
    \/ \E p \in Ptrs : RecordArrives(p)
    \/ \E p \in Ptrs : OnRecordLock(p)
    \/ \E p \in Ptrs : OnRecordCheck(p)
    \/ \E p \in Ptrs : OnRecordCall(p)
    \/ \E p \in Ptrs, raised \in Raised : OnRecordReturn(p, raised)
    \/ \E p \in Ptrs : DeliveryCrash(p)

Spec == Init /\ [][Next]_vars

\* The run-loop thread keeps running: a connection with records left hands
\* over the next one, and a thread inside OnRecord or inside destroy takes
\* its next step (a mutex that is free is eventually acquired)
Fairness ==
    /\ \A p \in Ptrs :
          /\ WF_vars(RecordArrives(p))
          /\ WF_vars(OnRecordLock(p))
          /\ WF_vars(OnRecordCheck(p))
          /\ WF_vars(OnRecordCall(p))
          /\ WF_vars(\E raised \in Raised : OnRecordReturn(p, raised))
    /\ \A t \in Host :
          /\ WF_vars(\E raises \in BOOLEAN : LiveDestroyLock(t, raises))
          /\ WF_vars(LiveDestroyUnlock(t))
          /\ WF_vars(LiveDestroyDelete(t))
          /\ WF_vars(LiveDestroyUnregister(t))

FairSpec == Init /\ [][Next]_vars /\ Fairness

\* a session started with dbento_live_start_ex whose foreign callbacks, the
\* error callback included, may raise
ExNext ==
    \/ \E t \in Host, k \in ApiKeys, ds \in {NullStr, "X"}, ok \in BOOLEAN :
          NoObjectYet /\ dbento_live_create_ex(t, k, ds, ok)
    \/ \E t \in Host, h \in SessionHandles, mc \in Callbacks, rc \in Callbacks,
          ec \in Callbacks, ud \in UserData, ok \in BOOLEAN :
          dbento_live_start_ex(t, h, mc, rc, ec, ud, ok)
    \/ \E t \in Host, h \in SessionHandles : dbento_live_destroy(t, h)
    \/ \E t \in Host, raises \in BOOLEAN : LiveDestroyLock(t, raises)
    \/ \E t \in Host : LiveDestroyUnlock(t)
    \/ \E t \in Host : LiveDestroyDelete(t)
    \/ \E t \in Host : LiveDestroyUnregister(t)
    \/ \E p \in Ptrs : MetadataArrives(p)
    \/ \E p \in Ptrs : MetadataCall(p)
    \/ \E p \in Ptrs, raised \in Raised, er \in BOOLEAN : MetadataReturn(p, raised, er)
    \/ \E p \in Ptrs : RecordArrives(p)
    \/ \E p \in Ptrs : OnRecordLock(p)
    \/ \E p \in Ptrs : OnRecordCheck(p)
    \/ \E p \in Ptrs : OnRecordCall(p)
    \/ \E p \in Ptrs, raised \in Raised : OnRecordReturn(p, raised)
    \/ \E p \in Ptrs, raised \in Raised : OnRecordErrorRaises(p, raised)
    \/ \E p \in Ptrs : DeliveryCrash(p)

ExSpec == Init /\ [][ExNext]_vars

\* the calls that move a session between its lifecycle states, made by its
\* host on sessions started with either start function
LifecycleNext ==
    \/ \E t \in Host, k \in ApiKeys : NoObjectYet /\ dbento_live_create(t, k)
    \/ \E t \in Host, k \in ApiKeys, ds \in {NullStr, "X"}, ok \in BOOLEAN :
          NoObjectYet /\ dbento_live_create_ex(t, k, ds, ok)
    \/ \E t \in Host, h \in SessionHandles, a \in SubscribeArgs, bok \in BOOLEAN,
          sok \in BOOLEAN :
          dbento_live_subscribe(t, h, a[1], a[2], a[3], bok, sok)
    \/ \E t \in Host, h \in SessionHandles, rc \in Callbacks, ec \in Callbacks,
          ud \in UserData, ok \in BOOLEAN :
          dbento_live_start(t, h, rc, ec, ud, ok)
    \/ \E t \in Host, h \in SessionHandles, mc \in Callbacks, rc \in Callbacks,
          ec \in Callbacks, ud \in UserData, ok \in BOOLEAN :
          dbento_live_start_ex(t, h, mc, rc, ec, ud, ok)
    \/ \E t \in Host, h \in SessionHandles : dbento_live_stop(t, h)
    \/ \E t \in Host, h \in SessionHandles, ok \in BOOLEAN : dbento_live_reconnect(t, h, ok)
    \/ \E t \in Host, h \in SessionHandles, ok \in BOOLEAN : dbento_live_resubscribe(t, h, ok)
    \/ \E t \in Host, h \in SessionHandles : dbento_live_get_connection_state(t, h)

LifecycleSpec == Init /\ [][LifecycleNext]_vars

\* the registry under concurrent callers: objects of two types are created,
\* queried and destroyed; no session is started
RegistryNext ==
    \/ \E t \in Callers, k \in ApiKeys : dbento_live_create(t, k)
    \/ \E t \in Callers, k \in ApiKeys : dbento_historical_create(t, k)
    \/ \E t \in Callers, h \in ForeignHandles : dbento_live_get_connection_state(t, h)
    \/ \E t \in Callers, h \in ForeignHandles : dbento_metadata_get_symbol_mapping(t, h)
    \/ \E t \in Callers, h \in ForeignHandles : dbento_live_destroy(t, h)
    \/ \E t \in Callers, raises \in BOOLEAN : LiveDestroyLock(t, raises)
    \/ \E t \in Callers : LiveDestroyUnlock(t)
    \/ \E t \in Callers : LiveDestroyDelete(t)
    \/ \E t \in Callers : LiveDestroyUnregister(t)
    \/ \E t \in Callers, h \in ForeignHandles : dbento_historical_destroy(t, h)
    \/ \E t \in Callers : HistDestroyDelete(t)
    \/ \E t \in Callers : HistDestroyUnregister(t)

RegistrySpec == Init /\ [][RegistryNext]_vars

\* ----------------------------------------------------------- batch calls
\* batch_wrapper.cpp: the five functions that take a historical client handle
BatchOps ==
    {"batch_submit_job", "batch_list_jobs", "batch_list_files",
     "batch_download_all", "batch_download_file"}

\* lines 134-138 (187, 218, 255, 294): reinterpret_cast of the handle, a null
\* test, then wrapper->client is read. The registry is not consulted: a
\* handle that was destroyed, has another tag or was never issued is read as
\* a HistoricalClientWrapper
dbento_batch(t, op, h) ==
    /\ Idle(t)
    /\ IF h = NULL
       THEN /\ last' = Ret(op, h, "invalid_handle", NULL)
            /\ UNCHANGED fault
       ELSE /\ last' = Ret(op, h, "dereferenced", NULL)
            /\ IF h \in Handles /\ registry[h].state # "never"
               THEN Deref(registry[h].ptr, "HistoricalClient")
               ELSE fault' = [fault EXCEPT !.confused = TRUE]
    /\ UNCHANGED <<registry, heap, handleOf, life, w, eng, d, call, hist>>
    /\ UNCHANGED bufvars

BatchNext ==
    \/ RegistryNext
    \/ \E t \in Callers, op \in BatchOps, h \in ForeignHandles : dbento_batch(t, op, h)

BatchSpec == Init /\ [][BatchNext]_vars

\* ------------------------------------------- buffer-output operations
\* A const char* argument is either null or points to a string, the sequence
\* of its bytes before the terminator. What a call stores into the caller's buffer is a function
\* from the indices it wrote to the bytes it left there.
NoWrites == [i \in {} |-> 0]

Min(a, b) == IF a <= b THEN a ELSE b

\* dest[i] = v
Store(wr, i, v) == [j \in (DOMAIN wr) \cup {i} |-> IF j = i THEN v ELSE wr[j]]

\* strncpy(dest, src, n): writes n bytes, the string and then padding NULs
Strncpy(src, n) == [i \in 0..(n - 1) |-> IF i < Len(src.bytes) THEN src.bytes[i + 1] ELSE 0]

\* memcpy(dest, src, n)
Memcpy(src, n) == [i \in 0..(n - 1) |-> src.bytes[i + 1]]

SafeStrCopy_NoTerminator(dest, dest_size, src) ==
    IF ~dest \/ dest_size = 0
    THEN [ret |-> FALSE, writes |-> NoWrites]
    ELSE [ret |-> dest_size >= MIN_ERROR_BUFFER_SIZE,
          writes |-> IF src.null THEN Store(NoWrites, 0, 0)
                     ELSE Strncpy(src, Min(dest_size, MAX_ERROR_BUFFER_SIZE))]

\* common_helpers.hpp, SafeStrCopy: the value returned and the bytes written
SafeStrCopy(dest, dest_size, src) ==
    IF ~dest \/ dest_size = 0
    THEN [ret |-> FALSE, writes |-> NoWrites]
    ELSE IF dest_size < MIN_ERROR_BUFFER_SIZE
    THEN [ret |-> FALSE,
          writes |-> IF ~src.null /\ Len(src.bytes) > 0
                     THEN Store(Strncpy(src, dest_size - 1), dest_size - 1, 0)
                     ELSE Store(NoWrites, 0, 0)]
    ELSE LET safe_size == Min(dest_size, MAX_ERROR_BUFFER_SIZE)
         IN [ret |-> TRUE,
             writes |-> IF src.null THEN Store(NoWrites, 0, 0)
                        ELSE Store(Strncpy(src, safe_size - 1), safe_size - 1, 0)]

\* batch_wrapper.cpp, its own static SafeStrCopy: the bytes written
BatchSafeStrCopy(dest, dest_size, src) ==
    IF dest /\ dest_size > 0 /\ ~src.null
    THEN Store(Strncpy(src, dest_size - 1), dest_size - 1, 0)
    ELSE NoWrites

\* the string of n bytes, none of them NUL
StringOfLen(n) == [null |-> FALSE, bytes |-> [i \in 1..n |-> 65]]

NullSrc == [null |-> TRUE, bytes |-> <<>>]

Caps == 0..MaxCap
Sources == {NullSrc} \cup {StringOfLen(n) : n \in 0..(MaxCap + 1)}

\* the calls followed: a bare string copy of either variant; a key read out
\* of a symbology resolution; a record read out of a DBN file. dest says
\* whether the buffer pointer is non-null, src is the string or record to
\* hand out (null: the file is at its end), handleOk whether the handle
\* validates, indexOk whether the index is in range, readOk whether the
\* underlying read returns rather than throws
BufArgs ==
    [fn : {"SafeStrCopy", "BatchSafeStrCopy"}, dest : BOOLEAN, cap : Caps,
     src : Sources, handleOk : {TRUE}, indexOk : {TRUE}, readOk : {TRUE}]
    \cup
    [fn : {"get_mapping_key"}, dest : BOOLEAN, cap : Caps,
     src : Sources \ {NullSrc}, handleOk : BOOLEAN, indexOk : BOOLEAN, readOk : {TRUE}]
    \cup
    [fn : {"next_record"}, dest : {TRUE}, cap : Caps,
     src : Sources, handleOk : BOOLEAN, indexOk : {TRUE}, readOk : BOOLEAN]

BufInit ==
    /\ SessionInit
    /\ arg \in BufArgs
    /\ res = NoCall
    /\ file = NewFile

Result(fn, outcome, ret, writes, length, type) ==
    [fn |-> fn, outcome |-> outcome, ret |-> ret, writes |-> writes,
     length |-> length, type |-> type]

CallSafeStrCopy ==
    /\ arg.fn = "SafeStrCopy" /\ res = NoCall
    /\ LET r == SafeStrCopy(arg.dest, arg.cap, arg.src)
       IN res' = Result("SafeStrCopy", "returned", r.ret, r.writes, "unset", "unset")
    /\ UNCHANGED <<arg, file, sessvars>>

CallBatchSafeStrCopy ==
    /\ arg.fn = "BatchSafeStrCopy" /\ res = NoCall
    /\ res' = Result("BatchSafeStrCopy", "returned", "void",
                     BatchSafeStrCopy(arg.dest, arg.cap, arg.src), "unset", "unset")
    /\ UNCHANGED <<arg, file, sessvars>>

\* historical_client_wrapper.cpp 412-439
dbento_symbology_resolution_get_mapping_key ==
    /\ arg.fn = "get_mapping_key" /\ res = NoCall
    /\ res' =
          IF ~arg.handleOk \/ ~arg.dest \/ arg.cap = 0
          THEN Result("get_mapping_key", "invalid", -1, NoWrites, "unset", "unset")
          ELSE IF ~arg.indexOk
          THEN Result("get_mapping_key", "out_of_range", -2, NoWrites, "unset", "unset")
          ELSE Result("get_mapping_key", "copied", 0,
                      SafeStrCopy(arg.dest, arg.cap, arg.src).writes, "unset", "unset")
    /\ UNCHANGED <<arg, file, sessvars>>

\* what dbento_dbn_file_next_record returns on each of its exits
NextRecordStatus(outcome) ==
    CASE outcome = "success" -> 0
      [] outcome = "eof" -> 1
      [] OTHER -> -1

\* dbn_file_reader_wrapper.cpp 166-215, called with a non-null record buffer
dbento_dbn_file_next_record ==
    /\ arg.fn = "next_record" /\ res = NoCall
    /\ res' =
          IF ~arg.handleOk
          THEN Result("next_record", "invalid_handle", NextRecordStatus("invalid_handle"),
                      NoWrites, "unset", "unset")
          ELSE IF ~arg.readOk
          THEN Result("next_record", "read_failure", NextRecordStatus("read_failure"),
                      NoWrites, "unset", "unset")
          ELSE IF arg.src.null
          THEN Result("next_record", "eof", NextRecordStatus("eof"), NoWrites, 0, "unset")
          ELSE IF Len(arg.src.bytes) > arg.cap
          THEN Result("next_record", "too_small", NextRecordStatus("too_small"),
                      NoWrites, "unset", "unset")
          ELSE Result("next_record", "success", NextRecordStatus("success"),
                      Memcpy(arg.src, Len(arg.src.bytes)), Len(arg.src.bytes),
                      RecordRType(Len(arg.src.bytes)))
    /\ UNCHANGED <<arg, file, sessvars>>

BufNext ==
    \/ CallSafeStrCopy
    \/ CallBatchSafeStrCopy
    \/ dbento_symbology_resolution_get_mapping_key
    \/ dbento_dbn_file_next_record

BufSpec == BufInit /\ [][BufNext]_vars

\* ------------------------------------------------- reading a DBN file
\* the record buffers a caller passes: none that fits, and one fitting
\* exactly the n-th record, n = 1..MaxFile
BufferSizes == {RecordSize(n) : n \in 0..MaxFile}

\* dbn_file_reader_wrapper.cpp 166-215 over a file of MaxFile records, the
\* n-th of size RecordSize(n): DbnFileStore::NextRecord (line 185) advances
\* the reader before the size test of line 197
ReadNextRecord(handleOk, record_buffer_size) ==
    /\ IF ~handleOk
       THEN /\ res' = [fn |-> "next_record", outcome |-> "invalid_handle",
                       ret |-> NextRecordStatus("invalid_handle")]
            /\ UNCHANGED file
       ELSE IF file.pos = MaxFile
       THEN /\ res' = [fn |-> "next_record", outcome |-> "eof",
                       ret |-> NextRecordStatus("eof")]
            /\ file' = [file EXCEPT !.eof = TRUE]
       ELSE LET n == file.pos + 1
            IN IF RecordSize(n) > record_buffer_size
               THEN /\ res' = [fn |-> "next_record", outcome |-> "too_small",
                               ret |-> NextRecordStatus("too_small")]
                    /\ file' = [file EXCEPT !.pos = n]
               ELSE /\ res' = [fn |-> "next_record", outcome |-> "success",
                               ret |-> NextRecordStatus("success")]
                    /\ file' = [file EXCEPT !.pos = n, !.got = Append(@, n)]
    /\ UNCHANGED <<arg, sessvars>>

ReaderNext ==
    \E handleOk \in BOOLEAN, size \in BufferSizes : ReadNextRecord(handleOk, size)

ReaderSpec == Init /\ [][ReaderNext]_vars

\* ------------------------------------- subscribe calls of several threads
\* dbento_live_subscribe and dbento_live_subscribe_with_snapshot, statement
\* by statement, for callers that share one session
SubscribeOps == {"subscribe", "subscribe_with_snapshot"}

\* line 186 stores the dataset always; lines 523-525 only into an empty one
StoreDataset(wr, op, dataset) ==
    IF op = "subscribe" \/ wr.dataset = "" THEN [wr EXCEPT !.dataset = dataset] ELSE wr

\* a subscribe that does not parse the schema before it goes on
LiveSubscribeBegin_NoParse(t, h, op, dataset, schema, symbols) ==
    /\ Idle(t)
    /\ LET v == ValidateAndCast(registry, h, "LiveClient")
       IN IF v.err # "None"
          THEN /\ last' = Ret(op, h, "invalid_handle", SubscribeStatus("invalid_handle"))
               /\ UNCHANGED <<w, call, fault>>
          ELSE IF ~(ValidateNonEmptyString(dataset) /\ ValidateNonEmptyString(schema)
                    /\ ValidateSymbolArray(symbols))
          THEN /\ last' = Ret(op, h, "invalid_param", SubscribeStatus("invalid_param"))
               /\ UNCHANGED <<w, call, fault>>
          ELSE /\ w' = [w EXCEPT ![v.ptr] = StoreDataset(@, op, dataset)]
               /\ Deref(v.ptr, "LiveClient")
               /\ call' = [call EXCEPT ![t] =
                             [pc |-> "s_once", h |-> h, p |-> v.ptr, inflight |-> 0,
                              op |-> op]]
               /\ UNCHANGED last
    /\ UNCHANGED <<registry, heap, handleOf, life, eng, d, hist>>
    /\ UNCHANGED bufvars

\* lines 171-199 (511-538): validation, the dataset store, ParseSchema
LiveSubscribeBegin(t, h, op, dataset, schema, symbols) ==
    /\ Idle(t)
    /\ LET v == ValidateAndCast(registry, h, "LiveClient")
       IN IF v.err # "None"
          THEN /\ last' = Ret(op, h, "invalid_handle", SubscribeStatus("invalid_handle"))
               /\ UNCHANGED <<w, call, fault>>
          ELSE IF ~(ValidateNonEmptyString(dataset) /\ ValidateNonEmptyString(schema)
                    /\ ValidateSymbolArray(symbols))
          THEN /\ last' = Ret(op, h, "invalid_param", SubscribeStatus("invalid_param"))
               /\ UNCHANGED <<w, call, fault>>
          ELSE /\ w' = [w EXCEPT ![v.ptr] = StoreDataset(@, op, dataset)]
               /\ Deref(v.ptr, "LiveClient")
               /\ IF ~ParseSchemaKnown(schema)
                  THEN /\ last' = Ret(op, h, "invalid_param", SubscribeStatus("invalid_param"))
                       /\ UNCHANGED call
                  ELSE /\ call' = [call EXCEPT ![t] =
                                     [pc |-> "s_once", h |-> h, p |-> v.ptr, inflight |-> 0,
                                      op |-> op]]
                       /\ UNCHANGED last
    /\ UNCHANGED <<registry, heap, handleOf, life, eng, d, hist>>
    /\ UNCHANGED bufvars

\* another thread is executing the callable of std::call_once on p's flag
OnceActive(p) == \E u \in Callers : call[u].pc = "s_build" /\ call[u].p = p

\* a lazy construction that tests the pointer instead of a once-flag
LiveSubscribeCallOnce_Unguarded(t) ==
    /\ call[t].pc = "s_once"
    /\ call' = [call EXCEPT ![t].pc = IF w[call[t].p].client THEN "s_forward" ELSE "s_build"]
    /\ UNCHANGED <<registry, heap, handleOf, life, w, eng, d, hist, last, fault>>
    /\ UNCHANGED bufvars

\* line 64, std::call_once(client_init_flag, ...): returns at once when the
\* flag is set, waits while another thread executes the callable, and
\* executes it otherwise
LiveSubscribeCallOnce(t) ==
    /\ call[t].pc = "s_once"
    /\ w[call[t].p].client_init_flag \/ ~OnceActive(call[t].p)
    /\ call' = [call EXCEPT ![t].pc =
                   IF w[call[t].p].client_init_flag THEN "s_forward" ELSE "s_build"]
    /\ UNCHANGED <<registry, heap, handleOf, life, w, eng, d, hist, last, fault>>
    /\ UNCHANGED bufvars

\* lines 65-76, the callable: BuildThreaded constructs the connection; when
\* it throws, call_once leaves the flag unset and the exception reaches the
\* handler of the API function
LiveSubscribeBuild(t, buildOk, kind) ==
    /\ call[t].pc = "s_build"
    /\ LET p == call[t].p
       IN IF buildOk
          THEN /\ w' = [w EXCEPT ![p].client = TRUE, ![p].client_init_flag = TRUE]
               /\ eng' = [eng EXCEPT ![p].built = @ + 1]
               /\ call' = [call EXCEPT ![t].pc = "s_forward"]
               /\ UNCHANGED last
          ELSE /\ call' = [call EXCEPT ![t] = IdleCall]
               /\ LET out == AtBoundary("engine_failure", kind)
                  IN last' = Ret(call[t].op, call[t].h, out, Returned(out, SubscribeStatus(out)))
               /\ UNCHANGED <<w, eng>>
    /\ UNCHANGED <<registry, heap, handleOf, life, d, hist, fault>>
    /\ UNCHANGED bufvars

\* line 205 (544): wrapper->client->Subscribe, then return 0
LiveSubscribeForward(t, subOk, kind) ==
    /\ call[t].pc = "s_forward"
    /\ call' = [call EXCEPT ![t] = IdleCall]
    /\ LET out == IF ~w[call[t].p].client THEN "null_client"
                  ELSE IF subOk THEN "success"
                  ELSE AtBoundary("engine_failure", kind)
       IN last' = Ret(call[t].op, call[t].h, out,
                      IF out = "null_client" THEN NULL
                      ELSE Returned(out, SubscribeStatus(out)))
    /\ UNCHANGED <<registry, heap, handleOf, life, w, eng, d, hist, fault>>
    /\ UNCHANGED bufvars

BuildNext ==
    \/ \E t \in Callers, k \in ApiKeys : NoObjectYet /\ dbento_live_create(t, k)
    \/ \E t \in Callers, k \in ApiKeys, ds \in {NullStr, "X"}, ok \in BOOLEAN :
          NoObjectYet /\ dbento_live_create_ex(t, k, ds, ok)
    \/ \E t \in Callers, h \in SessionHandles, op \in SubscribeOps, a \in SubscribeArgs :
          LiveSubscribeBegin(t, h, op, a[1], a[2], a[3])
    \/ \E t \in Callers : LiveSubscribeCallOnce(t)
    \/ \E t \in Callers, ok \in BOOLEAN, kind \in ExceptionKinds : LiveSubscribeBuild(t, ok, kind)
    \/ \E t \in Callers, ok \in BOOLEAN, kind \in ExceptionKinds : LiveSubscribeForward(t, ok, kind)

BuildSpec == Init /\ [][BuildNext]_vars

\* ================================================================ claims

Valid(h) == h \in Handles /\ life[h].state = "issued"

InvalidHandle == [err |-> "InvalidHandle", ptr |-> NULL]
TypeMismatch == [err |-> "TypeMismatch", ptr |-> NULL]

\* C1: a handle returned by a create call validates under the tag it was
\* created with, to the pointer it was created for, in every state until the
\* API passes it to DestroyValidatedHandle; from then on, and for every handle
\* value never issued, validation fails with InvalidHandle under every tag and
\* yields no pointer.
C1_ValidUntilDestroyed ==
    \A h \in ForeignHandles :
        IF Valid(h)
        THEN LET v == ValidateAndCast(registry, h, life[h].tag)
             IN v.err = "None" /\ v.ptr \in Ptrs /\ handleOf[v.ptr] = h
        ELSE \A T \in HandleType : ValidateAndCast(registry, h, T) = InvalidHandle

\* a destroyed handle next to a handle that is still live
C1_Witness ==
    /\ \E h \in Handles : life[h].state = "destroyed"
    /\ \E h \in Handles : life[h].state = "issued"

C3_StopBoundsDelivery ==
    /\ [](\A p \in Ptrs : hist[p].stopped => hist[p].cbAfterStop <= 1)
    /\ [][\A p \in Ptrs :
            OnRecordCheck(p) /\ hist[p].stopped
            => /\ hist'[p].passed = hist[p].passed
               /\ d'[p].pc = "idle"
               /\ ~eng'[p].loop]_vars

\* the one in-flight delivery has completed after the stop
C3_Witness ==
    \E p \in Ptrs : hist[p].stopped /\ hist[p].cbAfterStop = 1 /\ d[p].pc = "idle"

\* C4: when destroy is called while the run-loop thread is inside OnRecord
\* holding callback_mutex, the wrapper is not deleted before that delivery has
\* returned and released the mutex.
C4_DestroyWaitsForDelivery ==
    \A t \in Callers :
        call[t].pc = "d_unreg" /\ call[t].inflight # 0
        => ~(d[call[t].p].pc \in Holding /\ d[call[t].p].rec = call[t].inflight)

\* destroy was called mid-delivery and has deleted the wrapper
C4_Witness ==
    \E t \in Callers : call[t].pc = "d_unreg" /\ call[t].inflight # 0

\* C5: a destroy call on a handle that has been destroyed, or was never
\* issued, changes nothing and returns at once.
C5_DestroyIdempotent ==
    [][\A t \in Callers, h \in ForeignHandles :
          ~Valid(h) /\ (dbento_live_destroy(t, h) \/ dbento_historical_destroy(t, h))
          => UNCHANGED <<registry, heap, handleOf, life, w, eng, d, call, hist, fault>>]_vars

\* a destroy call has returned from a handle destroyed earlier
C5_Witness ==
    /\ last.op \in {"destroy", "hist_destroy"}
    /\ last.outcome = "invalid_handle"
    /\ last.h \in Handles
    /\ life[last.h].state = "destroyed"

\* an object that was created and registered and has not been deleted
LiveObject(p) == heap[p] = "live" /\ handleOf[p] # NULL

\* C6: whatever the interleaving of the callers, two objects that are created
\* and not yet destroyed never have the same handle value, and the registry
\* holds one live handle per such object.
C6_DistinctLiveHandles ==
    /\ \A p, q \in Ptrs :
          p # q /\ LiveObject(p) /\ LiveObject(q) => handleOf[p] # handleOf[q]
    /\ \A p \in Ptrs :
          LiveObject(p) => /\ registry[handleOf[p]].state = "live"
                           /\ registry[handleOf[p]].ptr = p

\* two objects live at once, while another caller is inside a destroy call
C6_Witness ==
    /\ \E p, q \in Ptrs : p # q /\ LiveObject(p) /\ LiveObject(q)
    /\ \E t \in Callers : call[t].pc # "idle"

\* C7: once dbento_live_destroy has returned from a call on a live handle, the
\* handle no longer validates, also when a step of the destroy path failed.
C7_DestroyInvalidates ==
    last.op = "destroy" /\ last.outcome \in {"done", "swallowed"}
    => ValidateAndCast(registry, last.h, "LiveClient").err # "None"

\* the record numbers of the callback invocations so far
DeliveredRecords(p) ==
    [i \in 1..Len(hist[p].delivered) |-> hist[p].delivered[i][1]]

Front(s) == SubSeq(s, 1, Len(s) - 1)

\* C8: in a session that has not been deleted, the record callback has been
\* entered exactly once for each record whose flag check found the flag true
\* (all but the one between its check and its call), in the order of arrival,
\* each time with that record's size and type and the stored user context.
C8_DeliveryInOrder ==
    /\ [](\A p \in Ptrs : heap[p] = "live" =>
            /\ DeliveredRecords(p) =
                  IF d[p].pc = "call" THEN Front(hist[p].passed) ELSE hist[p].passed
            /\ \A i \in 1..Len(hist[p].delivered) :
                  LET e == hist[p].delivered[i]
                  IN /\ e[2] = RecordSize(e[1])
                     /\ e[3] = RecordRType(e[1])
                     /\ i > 1 => hist[p].delivered[i - 1][1] < e[1])
    /\ [][\A p \in Ptrs :
            OnRecordCall(p)
            => hist'[p].delivered =
                  Append(hist[p].delivered,
                         <<d[p].rec, RecordSize(d[p].rec), RecordRType(d[p].rec),
                           w[p].user_data>>)]_vars

\* three records have been forwarded to the record callback
C8_Witness ==
    \E p \in Ptrs : heap[p] = "live" /\ Len(hist[p].delivered) = 3

StatusOps == {"subscribe", "start", "resubscribe", "reconnect"}
StatusOutcomes == {"success", "invalid_handle", "invalid_param", "engine_failure"}

\* C9: two calls of the same operation among subscribe, start, resubscribe
\* and reconnect that end in different outcomes among success, invalid handle,
\* invalid parameter and connection failure return different status values.
C9_StatusesDistinct ==
    [][/\ last.op \in StatusOps /\ last'.op = last.op
       /\ last.outcome \in StatusOutcomes /\ last'.outcome \in StatusOutcomes
       /\ last.outcome # last'.outcome
       => last.val # last'.val]_vars

\* the lifecycle state of the session behind h: 0 disconnected, 2 connected
\* and idle, 3 streaming
LifecycleStateIn(lf, reg, ws, h) ==
    IF ~(h \in Handles /\ lf[h].state = "issued" /\ lf[h].tag = "LiveClient") THEN 0
    ELSE IF ~ws[reg[h].ptr].client THEN 0
    ELSE IF ws[reg[h].ptr].is_running THEN 3
    ELSE 2

LifecycleState(h) == LifecycleStateIn(life, registry, w, h)

LifecycleStateAfter(h) == LifecycleStateIn(life', registry', w', h)

\* C10: get_connection_state returns 0 for a handle that is invalid or
\* destroyed or whose session has no connection, 3 when the connection exists
\* and the flag is true, 2 when it exists and the flag is false; a session
\* just created has state 0, a successful subscribe on it leaves 2, a
\* successful start leaves 3, a stop leaves 2 on a session with a connection,
\* a completed destroy leaves 0.
C10_ConnectionState ==
    [][/\ last'.op = "get_connection_state"
          /\ (\E t \in Callers : dbento_live_get_connection_state(t, last'.h))
          => last'.val = LifecycleState(last'.h)
       /\ last'.op = "create" /\ last'.outcome = "success"
          /\ (\E t \in Callers, k \in ApiKeys : dbento_live_create(t, k))
          => LifecycleStateAfter(last'.val) = 0
       /\ last'.op = "subscribe" /\ last'.outcome = "success"
          /\ (\E t \in Callers, a \in SubscribeArgs, bok \in BOOLEAN, sok \in BOOLEAN :
                  dbento_live_subscribe(t, last'.h, a[1], a[2], a[3], bok, sok))
          => LifecycleStateAfter(last'.h) =
                IF LifecycleState(last'.h) = 0 THEN 2 ELSE LifecycleState(last'.h)
       /\ last'.op = "start" /\ last'.outcome = "success"
          /\ (\E t \in Callers, rc \in Callbacks, ec \in Callbacks, ud \in UserData,
                  ok \in BOOLEAN : dbento_live_start(t, last'.h, rc, ec, ud, ok))
          => LifecycleStateAfter(last'.h) = 3
       /\ last'.op = "stop" /\ last'.outcome = "success"
          /\ (\E t \in Callers : dbento_live_stop(t, last'.h))
          => LifecycleStateAfter(last'.h) = IF LifecycleState(last'.h) = 0 THEN 0 ELSE 2
       /\ \A t \in Callers :
             LiveDestroyUnregister(t) => LifecycleStateAfter(call[t].h) = 0]_vars

\* get_connection_state has reported streaming
C10_Witness ==
    last.op = "get_connection_state" /\ last.val = 3

\* C11: a resubscribe or reconnect call that returns success on a session
\* that was started and whose flag a stop call has cleared leaves the running flag true, so that
\* get_connection_state reports streaming and OnRecord forwards again.
C11_RearmAfterStop ==
    [][/\ last'.op \in {"resubscribe", "reconnect"} /\ last'.outcome = "success"
       /\ Valid(last'.h) /\ hist[registry[last'.h].ptr].stopped
       /\ w[registry[last'.h].ptr].record_callback # NULL
       /\ (\E t \in Callers, ok \in BOOLEAN :
              \/ dbento_live_resubscribe(t, last'.h, ok)
              \/ dbento_live_reconnect(t, last'.h, ok))
       => /\ w'[registry[last'.h].ptr].is_running
          /\ LifecycleStateAfter(last'.h) = 3]_vars

C13_StopEventuallyEnds ==
    \A p \in Ptrs :
        (hist[p].stopped /\ eng[p].loop
            /\ (eng[p].produced < MaxRecords \/ d[p].pc # "idle"))
        ~> (~eng[p].loop \/ ~hist[p].stopped)

\* a stopped session whose run loop has ended on a record that arrived and
\* was not forwarded
C13_Witness ==
    \E p \in Ptrs :
        /\ heap[p] = "live" /\ hist[p].stopped /\ ~eng[p].loop
        /\ d[p].pc = "idle"
        /\ Len(hist[p].passed) < eng[p].produced
        /\ hist[p].errors = <<>>

\* a string copy into a real buffer of at least one byte, from a real string
StringCopyCase ==
    /\ res # NoCall /\ res.fn \in {"SafeStrCopy", "BatchSafeStrCopy"}
    /\ arg.dest /\ arg.cap >= 1 /\ ~arg.src.null

\* C14: a string copy of either variant into a buffer of capacity >= 1
\* writes only at indices below the capacity and leaves a NUL at one of them.
C14_CopyWithinCapacity ==
    StringCopyCase
    => /\ \A i \in DOMAIN res.writes : 0 <= i /\ i < arg.cap
       /\ \E i \in DOMAIN res.writes : res.writes[i] = 0

\* the batch variant has copied a string longer than the capacity
C14_Witness ==
    /\ StringCopyCase /\ res.fn = "BatchSafeStrCopy"
    /\ Len(arg.src.bytes) > arg.cap
    /\ res.writes[arg.cap - 1] = 0

\* C15: a string-output operation reports failure exactly when the string
\* and its terminator do not fit in the capacity: SafeStrCopy returns true
\* exactly when they fit, and get_mapping_key returns 0 only when the whole
\* key was written.
C15_TruncationReported ==
    /\ res # NoCall /\ res.fn = "SafeStrCopy" /\ arg.dest /\ arg.cap >= 1
          /\ ~arg.src.null
          => (res.ret = (Len(arg.src.bytes) + 1 <= arg.cap))
    /\ res # NoCall /\ res.fn = "get_mapping_key" /\ res.ret = 0
          => Len(arg.src.bytes) + 1 <= arg.cap

\* C16: dbento_dbn_file_next_record writes only below record_buffer_size;
\* for a record larger than the buffer it copies nothing and returns a status
\* it returns for no other failure; otherwise it copies the record's bytes
\* and reports its length and type.
C16_RecordBufferContract ==
    res # NoCall /\ res.fn = "next_record"
    => /\ \A i \in DOMAIN res.writes : i < arg.cap
       /\ res.outcome = "too_small"
             => /\ res.writes = NoWrites
                /\ res.ret # NextRecordStatus("invalid_handle")
                /\ res.ret # NextRecordStatus("read_failure")
       /\ res.outcome = "success"
             => /\ res.writes = Memcpy(arg.src, Len(arg.src.bytes))
                /\ res.length = Len(arg.src.bytes)
                /\ res.type = RecordRType(Len(arg.src.bytes))

\* C17: no call of create, subscribe, start, reconnect or resubscribe lets an
\* exception of the engine or of validation, whatever its kind, leave the
\* function: the caller always receives a status or a null handle.
C17_NothingEscapes ==
    last.op \in {"create", "create_ex", "subscribe", "start", "reconnect", "resubscribe"}
    => last.outcome # "escaped"

\* C18: once destroy has taken and released the delivery lock, no invocation
\* of the record bridge, one that was blocked on the lock included, takes the
\* lock or reads the running flag or the callback pointers of a wrapper that
\* has been deleted.
C18_NoDeliveryAfterDelete ==
    [][\A p \in Ptrs :
          (\/ OnRecordLock(p) \/ OnRecordCheck(p) \/ OnRecordCall(p)
           \/ \E raised \in Raised : OnRecordReturn(p, raised))
          => heap[p] = "live"]_vars

\* C19: in every state, the intermediate states of a destroy call included, a
\* handle that ValidateAndCast accepts refers to an object that has not been
\* freed: destroy takes the handle out of the registry no later than it frees
\* the object.
C19_AcceptedHandleIsLive ==
    \A h \in ForeignHandles, tag \in HandleType :
        ValidateAndCast(registry, h, tag).err = "None"
        => heap[ValidateAndCast(registry, h, tag).ptr] = "live"

\* C20: over every interleaving of subscribe, subscribe_with_snapshot and
\* create_ex calls on a session the connection is constructed at most once,
\* and a subscribe call that returns success has handed its subscription to
\* that one connection.
C20_BuiltOnce ==
    [][/\ \A p \in Ptrs : eng'[p].built <= 1
       /\ \A t \in Callers :
             (/\ last'.op \in SubscribeOps /\ last'.outcome = "success"
              /\ \E ok \in BOOLEAN, kind \in ExceptionKinds : LiveSubscribeForward(t, ok, kind))
             => w[call[t].p].client /\ eng[call[t].p].built = 1]_vars

\* a subscribe call has returned success on the session's one connection
\* while a call of another thread is about to forward to the same connection
C20_Witness ==
    /\ last.op \in SubscribeOps /\ last.outcome = "success"
    /\ \E u \in Callers :
          /\ call[u].pc = "s_forward" /\ call[u].h = last.h
          /\ eng[call[u].p].built = 1

\* C21: an API operation reads the object behind a handle only when
\* ValidateAndCast accepts the handle under the operation's tag; the batch
\* operations never read through a handle that was destroyed, was never
\* issued or has another tag.
C21_ValidatedBeforeDeref ==
    [][\A h \in ForeignHandles :
          (/\ last'.op \in BatchOps /\ last'.h = h /\ last'.outcome = "dereferenced"
           /\ \E t \in Callers, op \in BatchOps : dbento_batch(t, op, h))
          => ValidateAndCast(registry, h, "HistoricalClient").err = "None"]_vars

\* C22: the run-loop thread is inside a foreign callback (record, metadata
\* or error callback) only while it holds the session's callback_mutex, so
\* no invocation overlaps another or the point where destroy holds the lock.
C22_CallbacksUnderLock ==
    \A p \in Ptrs :
        d[p].pc \in {"incb", "inmeta"} => w[p].callback_mutex = "delivery"

\* the arguments a subscribe call rejects: a handle that is not a live
\* LiveClient handle, a null or empty dataset or schema, a null symbol array
\* or element, a schema string that names no schema
RejectedSubscribe(h, dataset, schema, symbols) ==
    \/ ~(Valid(h) /\ life[h].tag = "LiveClient")
    \/ dataset \in {NullStr, ""}
    \/ schema \in {NullStr, "", "bogus"}
    \/ symbols \in {"null_array", "null_element"}

\* C23: a subscribe call whose arguments fail validation returns -1 without
\* constructing the connection and without reaching the engine's Subscribe:
\* it ends in its first step, with the session's connection untouched.
C23_ValidationBeforeEngine ==
    [][\A t \in Callers :
          call'[t] # call[t] \/ last' # last
          => \A h \in SessionHandles, op \in SubscribeOps, a \in SubscribeArgs :
                (/\ RejectedSubscribe(h, a[1], a[2], a[3])
                 /\ LiveSubscribeBegin(t, h, op, a[1], a[2], a[3]))
                => /\ call'[t] = IdleCall
                   /\ last'.outcome \in {"invalid_handle", "invalid_param"}
                   /\ last'.val = -1
                   /\ eng' = eng
                   /\ \A p \in Ptrs : /\ w'[p].client = w[p].client
                                      /\ w'[p].client_init_flag = w[p].client_init_flag]_vars

\* a subscribe call with a schema string that names no schema has been
\* rejected on a session that has no connection yet
C23_Witness ==
    /\ last.op \in SubscribeOps /\ last.outcome = "invalid_param"
    /\ Valid(last.h)
    /\ ~w[registry[last.h].ptr].client
    /\ w[registry[last.h].ptr].dataset = "X"
    /\ eng[registry[last.h].ptr].built = 0

\* the callback pointers and the user context registered on a wrapper
Registered(wr) ==
    <<wr.record_callback, wr.metadata_callback, wr.error_callback, wr.user_data>>

\* C24: a reconnect or resubscribe call, whether it succeeds or fails, leaves
\* the record, metadata and error callbacks and the user context of every
\* session as they were.
C24_CallbacksKept ==
    [][(/\ last'.op \in {"reconnect", "resubscribe"}
        /\ \E t \in Callers, ok \in BOOLEAN :
              \/ dbento_live_reconnect(t, last'.h, ok)
              \/ dbento_live_resubscribe(t, last'.h, ok))
       => \A p \in Ptrs : Registered(w'[p]) = Registered(w[p])]_vars

\* a reconnect has succeeded on a session that has callbacks registered
C24_Witness ==
    /\ last.op = "reconnect" /\ last.outcome = "success"
    /\ Valid(last.h)
    /\ w[registry[last.h].ptr].record_callback # NULL
    /\ w[registry[last.h].ptr].metadata_callback # NULL
    /\ w[registry[last.h].ptr].error_callback # NULL
    /\ w[registry[last.h].ptr].user_data # NULL

\* C25: of two destroy calls made on one live handle by two threads at most
\* one passes validation and deletes the wrapper: no two calls are inside
\* destroy for the same handle, and no wrapper is deleted twice.
C25_DestroyFreesOnce ==
    /\ ~fault.doubleFree
    /\ \A t \in Callers, u \in Callers :
          t # u /\ call[t].pc \in {"d_lock", "d_unlock", "d_delete", "d_unreg"}
          /\ call[u].pc \in {"d_lock", "d_unlock", "d_delete", "d_unreg"}
          => call[t].h # call[u].h

\* C26: a start or start_ex call that returns a failure status, whatever the
\* reason, leaves the running flag, the callback pointers and the user
\* context of the session as they were.
C26_FailedStartChangesNothing ==
    [][(/\ last'.op \in {"start", "start_ex"}
        /\ last'.outcome \in {"invalid_handle", "not_initialized", "invalid_param",
                              "engine_failure"}
        /\ \E t \in Callers, mc \in Callbacks, rc \in Callbacks, ec \in Callbacks,
              ud \in UserData, ok \in BOOLEAN :
              \/ dbento_live_start(t, last'.h, rc, ec, ud, ok)
              \/ dbento_live_start_ex(t, last'.h, mc, rc, ec, ud, ok))
       => \A p \in Ptrs : /\ Registered(w'[p]) = Registered(w[p])
                          /\ w'[p].is_running = w[p].is_running]_vars

\* C27: a start or start_ex call stores the callback pointers and the user
\* context of a session only while no invocation of the session's bridge
\* closure is under way on the run-loop thread.
C27_StartStoresOutsideDelivery ==
    [][(/\ last'.op \in {"start", "start_ex"}
        /\ last'.outcome \in {"success", "engine_failure", "escaped"}
        /\ \E t \in Callers, mc \in Callbacks, rc \in Callbacks, ec \in Callbacks,
              ud \in UserData, ok \in BOOLEAN :
              \/ dbento_live_start(t, last'.h, rc, ec, ud, ok)
              \/ dbento_live_start_ex(t, last'.h, mc, rc, ec, ud, ok))
       => d[registry[last'.h].ptr].pc = "idle"]_vars

\* C28: a subscribe call that returns failure leaves the session as it was;
\* in particular the stored dataset is the same before and after a subscribe
\* rejected for its schema string or failed by the engine.
C28_FailedSubscribeChangesNothing ==
    [][(/\ last'.op = "subscribe"
        /\ last'.outcome \in {"invalid_handle", "invalid_param", "engine_failure"}
        /\ \E t \in Callers, a \in SubscribeArgs, bok \in BOOLEAN, sok \in BOOLEAN :
              dbento_live_subscribe(t, last'.h, a[1], a[2], a[3], bok, sok))
       => \A p \in Ptrs : w'[p].dataset = w[p].dataset]_vars

\* C29: a dbento_dbn_file_next_record call that fails for a buffer too small
\* consumes no record: the records handed to the caller are always the first
\* records of the file, each once and in file order, and all of them by the
\* time the end of the file is reported.
C29_EveryRecordOnce ==
    /\ file.got = [i \in 1..Len(file.got) |-> i]
    /\ file.eof => Len(file.got) = MaxFile

\* C30: whatever the foreign callbacks do, the error callback raising while a
\* failed callback is reported included, no exception leaves a bridge closure
\* into the connection's run loop.
C30_ClosuresContainExceptions ==
    \A p \in Ptrs : ~eng[p].escaped

====
